---- MODULE Spec2Model ----
(***************************************************************************)
(* ember-lifeline: tasks bound to the lifetime of an owning object.        *)
(* addon/run-task.ts (runTask, scheduleTask, throttleTask, cancelTask) and *)
(* addon/debounce-task.ts (debounceTask, cancelDebounce), over the run     *)
(* loop of @ember/runloop (later, schedule, throttle, debounce, cancel).   *)
(***************************************************************************)
EXTENDS Integers, Sequences, FiniteSets, TLC

\* ------------------------------------------------------------ bounds
\* The run loop hands out at most MaxId timer identifiers in a behaviour.
MaxId == 2
\* The same, in the behaviours whose calls also draw malformed arguments.
MaxIdAnyInput == 1
\* The same, in the behaviours of two owners.
MaxIdTwoOwners == 2

\* ------------------------------------------------------------ inputs
Owners == {"o1", "o2"}
\* Properties of every owner that hold a function.
Names == {"f", "g"}
\* An anonymous function passed as the task.
Fn == "<function>"
\* A string that names no function of the owner.
Missing == "missing"
\* A value that is neither a string nor a function.
NotAString == "<number>"
TaskInputs == {Fn, NotAString, Missing} \cup Names
NameInputs == {NotAString, Missing} \cup Names
\* Queue names: a queue of the run loop, the reserved render queue, a string
\* that names no queue (the empty string), a value that is no string.
Queues == {"actions"}
QueueInputs == {"actions", "afterRender", "", NotAString}
Args == {"a", "b"}
NoArgs == "-"
\* The trailing wait argument: integers (also a negative one) and a string.
WaitInputs == {"5", "-5", "bad"}
\* The one-argument cancelTask(cancelId) has no owner.
Legacy == "<legacy>"
\* No function: an owner's property holds "v1" and, once reassigned, "v2".
NoFn == "-"

VARIABLES
  methods,               \* obj[name] of each owner: the function under each name
  isDestroyed,           \* obj.isDestroyed of each owner
  registeredDisposables, \* utils/disposable: the disposables registered per owner
  registeredTimers,      \* the map owner -> Set of cancelIds (owners with an entry)
  registeredDebounces,   \* the map owner -> Map name -> PendingDebounce
  runloop,               \* the run loop's timers, by identifier, with their history
  hookRan,               \* history: runDisposables(obj) has run
  debounceBurst,         \* history: arguments of the latest debounceTask call of the open burst
  throttleBurst,         \* history: arguments of the first and latest call of the open window
  lastCall               \* history: the error or no-op the last step's call ended in

vars == <<methods, isDestroyed, registeredDisposables, registeredTimers, registeredDebounces,
          runloop, hookRan, debounceBurst, throttleBurst, lastCall>>

\* The state of the program: everything but the record of the call.
progVars == <<methods, isDestroyed, registeredDisposables, registeredTimers, registeredDebounces,
              runloop, hookRan, debounceBurst, throttleBurst>>

EmptyMap == [x \in {} |-> x]
\* No burst of calls is open.
NoBurst == [first |-> NoArgs, last |-> NoArgs]
Idle == "-"

Init ==
  /\ methods = [o \in Owners |-> [n \in Names |-> "v1"]]
  /\ isDestroyed = [o \in Owners |-> FALSE]
  /\ registeredDisposables = [o \in Owners |-> <<>>]
  /\ registeredTimers = EmptyMap
  /\ registeredDebounces = EmptyMap
  /\ runloop = <<>>
  /\ hookRan = [o \in Owners |-> FALSE]
  /\ debounceBurst = [o \in Owners |-> [n \in Names |-> NoBurst]]
  /\ throttleBurst = [o \in Owners |-> [n \in Names |-> NoBurst]]
  /\ lastCall = Idle

\* utils/get-task: the task of a call, a function given as such or the function
\* that obj has under the name when getTask is called.
getTask(obj, taskOrName) ==
  IF taskOrName \in Names THEN methods[obj][taskOrName] ELSE taskOrName

\* ------------------------------------------------------------ the run loop
Pending(rl, id) == id \in DOMAIN rl /\ rl[id].status = "pending"

\* A timer of the run loop. method: the identity of the function the timer was
\* made for (0 when the model needs none); task: what the wrapper calls.
\* bound: the function the wrapper of runTask and scheduleTask closes over.
\* History: asked (a caller cancelled it), post (made after the owner's
\* disposables ran), late (its task ran after they ran), ranWith and want (the
\* arguments its task got, and those of the call of the burst that are due),
\* ran (the function that was called).
Timer(kind, obj, task, method, args) ==
  [kind |-> kind, obj |-> obj, task |-> task, method |-> method, args |-> args,
   bound |-> IF kind \in {"later", "schedule"} THEN getTask(obj, task) ELSE NoFn,
   status |-> "pending", asked |-> FALSE, post |-> hookRan[obj], late |-> FALSE,
   ranWith |-> NoArgs, want |-> NoArgs, ran |-> NoFn]

\* cancel(timer): removes a timer that has not fired; anything else is ignored.
cancel(rl, id) ==
  IF Pending(rl, id) THEN [rl EXCEPT ![id].status = "cancelled"] ELSE rl

cancelEach(rl, ids) ==
  [i \in DOMAIN rl |-> IF i \in ids /\ rl[i].status = "pending"
                       THEN [rl[i] EXCEPT !.status = "cancelled"] ELSE rl[i]]

\* History: a caller asks for the timers ids to be cancelled.
asking(rl, ids) ==
  [i \in DOMAIN rl |-> IF i \in ids /\ rl[i].status = "pending"
                       THEN [rl[i] EXCEPT !.asked = TRUE] ELSE rl[i]]

\* ------------------------------------------------------------ utils
\* utils/get-task: a function is the task; a string must name a function of obj.
getTaskError(obj, taskOrName) ==
  IF taskOrName = Fn THEN "ok"
  ELSE IF taskOrName = NotAString THEN "InvalidTask"
  ELSE IF taskOrName \in Names THEN "ok" ELSE "InvalidTask"

\* utils/disposable registerDisposable(obj, dispose).
registerDisposable(rd, obj, dispose) == [rd EXCEPT ![obj] = Append(@, dispose)]

\* getTimers(obj): the owner's Set, made and registered for disposal the first time.
getTimersMap(obj) ==
  IF obj \in DOMAIN registeredTimers THEN registeredTimers
  ELSE [o \in DOMAIN registeredTimers \cup {obj} |->
          IF o = obj THEN {} ELSE registeredTimers[o]]

\* A bug: the disposable is registered on every call of getTimers.
getTimersDisposablesEveryCall(obj) ==
  registerDisposable(registeredDisposables, obj, "timers")

getTimersDisposables(obj) ==
  IF obj \in DOMAIN registeredTimers THEN registeredDisposables
  ELSE registerDisposable(registeredDisposables, obj, "timers")

\* A bug: the cancelId the run loop returned is not added to the Set.
timersAddMissing(timers, cancelId) == timers

\* timers.add(cancelId)
timersAdd(timers, cancelId) == timers \cup {cancelId}

\* ------------------------------------------------------------ runTask
\* A bug: the owner's isDestroyed is not looked at.
runTaskErrorUnguarded(obj, taskOrName) == getTaskError(obj, taskOrName)

runTaskError(obj, taskOrName) ==
  IF isDestroyed[obj] THEN "DestroyedOwner" ELSE getTaskError(obj, taskOrName)

\* A bug: the task is also called before runTask returns.
runTaskTimerCalledAtOnce(obj, taskOrName) ==
  [Timer("later", obj, taskOrName, 0, NoArgs) EXCEPT
     !.status = "done", !.ran = getTask(obj, taskOrName)]

\* later(() => { timers.delete(cancelId); task.call(obj); }, timeout): a timer
\* that is due, its callback not called.
runTaskTimer(obj, taskOrName) == Timer("later", obj, taskOrName, 0, NoArgs)

RunTask(obj, taskOrName) ==
  LET err == runTaskError(obj, taskOrName)
      cancelId == Len(runloop) + 1
      timers == getTimersMap(obj)
  IN IF err # "ok"
     THEN /\ lastCall' = err
          /\ UNCHANGED progVars
     ELSE /\ Len(runloop) < MaxId
          /\ runloop' = Append(runloop, runTaskTimer(obj, taskOrName))
          /\ registeredTimers' = [timers EXCEPT ![obj] = timersAdd(@, cancelId)]
          /\ registeredDisposables' = getTimersDisposables(obj)
          /\ lastCall' = Idle
          /\ UNCHANGED <<methods, isDestroyed, registeredDebounces, hookRan, debounceBurst,
                         throttleBurst>>

\* ------------------------------------------------------------ scheduleTask
\* schedule(queueName, ...): the run loop rejects a queue it does not have.
scheduleError(queueName) == IF queueName \in Queues THEN "ok" ELSE "SchedulerError"

scheduleTaskError(obj, queueName, taskOrName) ==
  IF queueName = NotAString THEN "InvalidQueue"
  ELSE IF queueName = "afterRender" THEN "ReservedQueue"
  ELSE IF isDestroyed[obj] THEN "DestroyedOwner"
  ELSE getTaskError(obj, taskOrName)

ScheduleTask(obj, queueName, taskOrName, args) ==
  LET err == scheduleTaskError(obj, queueName, taskOrName)
      cancelId == Len(runloop) + 1
      timers == getTimersMap(obj)
  IN IF err # "ok"
     THEN /\ lastCall' = err
          /\ UNCHANGED progVars
     ELSE IF scheduleError(queueName) # "ok"
     THEN \* getTimers(obj) has run; schedule() throws; timers.add is not reached
          /\ registeredTimers' = timers
          /\ registeredDisposables' = getTimersDisposables(obj)
          /\ lastCall' = scheduleError(queueName)
          /\ UNCHANGED <<methods, isDestroyed, registeredDebounces, runloop, hookRan,
                         debounceBurst, throttleBurst>>
     ELSE /\ Len(runloop) < MaxId
          /\ runloop' = Append(runloop, Timer("schedule", obj, taskOrName, 0, args))
          /\ registeredTimers' = [timers EXCEPT ![obj] = timersAdd(@, cancelId)]
          /\ registeredDisposables' = getTimersDisposables(obj)
          /\ lastCall' = Idle
          /\ UNCHANGED <<methods, isDestroyed, registeredDebounces, hookRan, debounceBurst,
                         throttleBurst>>

\* ------------------------------------------------------------ throttleTask
IsInteger(wait) == wait \in {"5", "-5"}

throttleTaskError(obj, taskName, wait) ==
  IF taskName = NotAString THEN "InvalidTask"
  ELSE IF taskName \notin Names THEN "InvalidTask"
  ELSE IF isDestroyed[obj] THEN "DestroyedOwner"
  ELSE IF ~IsInteger(wait) THEN "InvalidDelay"
  ELSE "ok"

\* The timers of the run loop's throttle for (target, method) that have not expired.
throttlers(rl, obj, method) ==
  {i \in DOMAIN rl : /\ rl[i].status = "pending" /\ rl[i].kind = "throttle"
                      /\ rl[i].obj = obj /\ rl[i].method = method}

\* A bug: a new closure around the method is handed to throttle() on each call.
throttleMethodNewClosure(taskName) == Len(runloop) + 1

\* The method handed to throttle(): the task's name.
throttleMethod(taskName) == taskName

\* History of the throttle window of (obj, taskName): a call, a delivery, its end.
throttleCalled(tb, obj, taskName, args) ==
  IF tb[obj][taskName] # NoBurst THEN [tb EXCEPT ![obj][taskName].last = args]
  ELSE [tb EXCEPT ![obj][taskName] = [first |-> args, last |-> args]]

closeBursts(b, keys) ==
  [o \in Owners |-> [n \in Names |-> IF <<o, n>> \in keys THEN NoBurst ELSE b[o][n]]]

\* The windows whose throttle timer is among ids and has not expired.
throttleKeys(rl, ids) ==
  {<<rl[i].obj, rl[i].task>> : i \in {j \in ids \cap DOMAIN rl :
       rl[j].status = "pending" /\ rl[j].kind = "throttle"}}

\* throttle(target, method, ...args, wait): the first call of a window runs the
\* method at once and starts a timer; a call within the window returns that timer.
ThrottleTask(obj, taskName, args, wait) ==
  LET err == throttleTaskError(obj, taskName, wait)
      timers == getTimersMap(obj)
      found == throttlers(runloop, obj, throttleMethod(taskName))
      called == throttleCalled(throttleBurst, obj, taskName, args)
  IN IF err # "ok"
     THEN /\ lastCall' = err
          /\ UNCHANGED progVars
     ELSE /\ registeredDisposables' = getTimersDisposables(obj)
          /\ lastCall' = Idle
          /\ UNCHANGED <<methods, isDestroyed, registeredDebounces, hookRan, debounceBurst>>
          /\ IF found = {}
             THEN /\ Len(runloop) < MaxId
                  /\ runloop' = Append(runloop,
                        [Timer("throttle", obj, taskName, throttleMethod(taskName), args) EXCEPT
                           !.ranWith = args, !.late = hookRan[obj],
                           !.ran = methods[obj][taskName],
                           !.want = called[obj][taskName].first])
                  /\ registeredTimers' =
                        [timers EXCEPT ![obj] = @ \cup {Len(runloop) + 1}]
                  /\ throttleBurst' = called
             ELSE /\ runloop' = runloop
                  /\ registeredTimers' = [timers EXCEPT ![obj] = @ \cup found]
                  /\ throttleBurst' = called

\* ------------------------------------------------------------ debounceTask
debounceTaskError(obj, name, wait) ==
  IF name = NotAString THEN "InvalidTask"
  ELSE IF name \notin Names THEN "InvalidTask"
  ELSE IF isDestroyed[obj] THEN "DestroyedOwner"
  ELSE IF ~IsInteger(wait) THEN "InvalidDelay"
  ELSE "ok"

\* registeredDebounces.get(obj), made and registered for disposal the first time.
getDebouncesMap(obj) ==
  IF obj \in DOMAIN registeredDebounces THEN registeredDebounces
  ELSE [o \in DOMAIN registeredDebounces \cup {obj} |->
          IF o = obj THEN EmptyMap ELSE registeredDebounces[o]]

getDebouncesDisposables(obj) ==
  IF obj \in DOMAIN registeredDebounces THEN registeredDisposables
  ELSE registerDisposable(registeredDisposables, obj, "debounces")

\* A bug: an entry that exists is not overwritten.
setEntryOnlyIfAbsent(map, name, entry) ==
  [n \in DOMAIN map \cup {name} |-> IF n \in DOMAIN map THEN map[n] ELSE entry]

\* Map.set(name, entry)
setEntry(map, name, entry) ==
  [n \in DOMAIN map \cup {name} |-> IF n = name THEN entry ELSE map[n]]

\* Map.delete(name)
deleteEntry(map, name) == [n \in DOMAIN map \ {name} |-> map[n]]

\* A bug: a new closure is made on every call.
debouncedTaskAlwaysNew(pendingDebounces, name) == Len(runloop) + 1

\* The wrapped callback of the call: a new closure when the name has no entry
\* (its identity is the identifier its first timer will get), else the entry's.
debouncedTaskOf(pendingDebounces, name) ==
  IF name \notin DOMAIN pendingDebounces THEN Len(runloop) + 1
  ELSE pendingDebounces[name].debouncedTask

\* A bug: the entry of a pending name keeps the cancelId it had.
storedCancelIdKept(pendingDebounces, name, cancelId) ==
  IF name \in DOMAIN pendingDebounces THEN pendingDebounces[name].cancelId ELSE cancelId

\* The cancelId the entry is set to after the run loop returned cancelId.
storedCancelId(pendingDebounces, name, cancelId) == cancelId

\* The timers of the run loop's debounce for (target, method) that have not fired.
debouncers(rl, obj, method) ==
  {i \in DOMAIN rl : /\ rl[i].status = "pending" /\ rl[i].kind = "debounce"
                      /\ rl[i].obj = obj /\ rl[i].method = method}

debounceCalled(db, obj, name, args) ==
  [db EXCEPT ![obj][name] = [first |-> NoArgs, last |-> args]]

\* debounce(target, method, ...args, wait): a call for a (target, method) that has
\* a timer takes the new arguments and starts the wait again; the run loop either
\* keeps the timer's identifier or replaces the timer by a new one (fresh).
DebounceTask(obj, name, args, wait, fresh) ==
  LET err == debounceTaskError(obj, name, wait)
      debounces == getDebouncesMap(obj)
      pendingDebounces == debounces[obj]
      debouncedTask == debouncedTaskOf(pendingDebounces, name)
      found == debouncers(runloop, obj, debouncedTask)
      newId == Len(runloop) + 1
      cancelId == IF found = {} \/ fresh THEN newId ELSE CHOOSE i \in found : TRUE
  IN IF err # "ok"
     THEN /\ lastCall' = err
          /\ UNCHANGED progVars
     ELSE /\ registeredDisposables' = getDebouncesDisposables(obj)
          /\ registeredDebounces' =
               [debounces EXCEPT ![obj] = setEntry(pendingDebounces, name,
                  [debouncedTask |-> debouncedTask,
                   cancelId |-> storedCancelId(pendingDebounces, name, cancelId)])]
          /\ debounceBurst' = debounceCalled(debounceBurst, obj, name, args)
          /\ lastCall' = Idle
          /\ UNCHANGED <<methods, isDestroyed, registeredTimers, hookRan, throttleBurst>>
          /\ IF cancelId = newId
             THEN /\ Len(runloop) < MaxId
                  /\ runloop' = Append(
                        [i \in DOMAIN runloop |-> IF i \in found
                           THEN [runloop[i] EXCEPT !.status = "replaced"] ELSE runloop[i]],
                        Timer("debounce", obj, name, debouncedTask, args))
             ELSE /\ ~fresh
                  /\ runloop' = [runloop EXCEPT ![cancelId].args = args]

\* ------------------------------------------------------------ cancelDebounce
\* History: the debounce timers of (obj, name) that a cancelDebounce call is for.
debouncersOf(rl, obj, name) ==
  {i \in DOMAIN rl : /\ rl[i].status = "pending" /\ rl[i].kind = "debounce"
                      /\ rl[i].obj = obj /\ rl[i].task = name}

\* A bug: the owner's Map is made, and registered for disposal, when it is missing.
CancelDebounceMakesMap(obj, name) ==
  LET debounces == getDebouncesMap(obj) IN
  IF name \notin DOMAIN debounces[obj]
  THEN /\ lastCall' = "cancelDebounce:noop"
       /\ registeredDebounces' = debounces
       /\ registeredDisposables' = getDebouncesDisposables(obj)
       /\ UNCHANGED <<methods, isDestroyed, registeredTimers, runloop, hookRan, debounceBurst,
                      throttleBurst>>
  ELSE LET cancelId == debounces[obj][name].cancelId IN
       /\ registeredDebounces' = [debounces EXCEPT ![obj] = deleteEntry(@, name)]
       /\ runloop' = cancel(asking(runloop, debouncersOf(runloop, obj, name)), cancelId)
       /\ debounceBurst' = closeBursts(debounceBurst, {<<obj, name>>})
       /\ lastCall' = Idle
       /\ UNCHANGED <<methods, isDestroyed, registeredDisposables, registeredTimers, hookRan,
                      throttleBurst>>

CancelDebounce(obj, name) ==
  IF obj \notin DOMAIN registeredDebounces
  THEN /\ lastCall' = "cancelDebounce:noop"
       /\ UNCHANGED progVars
  ELSE IF name \notin DOMAIN registeredDebounces[obj]
  THEN /\ lastCall' = "cancelDebounce:noop"
       /\ UNCHANGED progVars
  ELSE LET cancelId == registeredDebounces[obj][name].cancelId IN
       /\ registeredDebounces' =
            [registeredDebounces EXCEPT ![obj] = deleteEntry(@, name)]
       /\ runloop' = cancel(asking(runloop, debouncersOf(runloop, obj, name)), cancelId)
       /\ debounceBurst' = closeBursts(debounceBurst, {<<obj, name>>})
       /\ lastCall' = Idle
       /\ UNCHANGED <<methods, isDestroyed, registeredDisposables, registeredTimers, hookRan,
                      throttleBurst>>

\* ------------------------------------------------------------ cancelTask
\* The identifiers a caller can hold: those runTask, scheduleTask and throttleTask
\* returned, and one no call returned (0).
Returned == {i \in DOMAIN runloop : runloop[i].kind # "debounce"}

\* A bug: the one-argument form does not take its argument as the cancelId.
cancelArgumentLegacyLost(obj, cancelId) == IF obj = Legacy THEN 0 ELSE cancelId

\* What is handed to cancel(): the cancelId, in the one-argument form the argument.
cancelArgument(obj, cancelId) == cancelId

\* A bug: the one-argument form deletes the cancelId from every owner's Set.
cancelTaskTimersSweep(obj, cancelId) ==
  IF obj = Legacy
  THEN [o \in DOMAIN registeredTimers |-> registeredTimers[o] \ {cancelId}]
  ELSE [getTimersMap(obj) EXCEPT ![obj] = @ \ {cancelId}]

\* The Sets after cancelTask: the one-argument form touches none; the other
\* gets the owner's Set (making it if the owner has none) and deletes cancelId.
cancelTaskTimers(obj, cancelId) ==
  IF obj = Legacy THEN registeredTimers
  ELSE [getTimersMap(obj) EXCEPT ![obj] = @ \ {cancelId}]

CancelTask(obj, cancelId) ==
  /\ runloop' = cancel(asking(runloop, {cancelId}), cancelArgument(obj, cancelId))
  /\ throttleBurst' = closeBursts(throttleBurst,
                          throttleKeys(runloop, {cancelArgument(obj, cancelId)}))
  /\ lastCall' = IF Pending(runloop, cancelArgument(obj, cancelId))
                 THEN Idle ELSE "cancelTask:noop"
  /\ registeredTimers' = cancelTaskTimers(obj, cancelId)
  /\ registeredDisposables' =
       IF obj = Legacy THEN registeredDisposables ELSE getTimersDisposables(obj)
  /\ UNCHANGED <<methods, isDestroyed, registeredDebounces, hookRan, debounceBurst>>

\* ------------------------------------------------------------ the timers fire
\* A timer of runTask or scheduleTask fires: the wrapper deletes its cancelId from
\* the owner's Set and calls the task.
\* A bug: the wrapper calls the task without deleting its cancelId.
wrapperDeleteMissing(timers, cancelId) == timers

\* timers.delete(cancelId) of the wrapper, before the task is called.
wrapperDelete(timers, cancelId) == timers \ {cancelId}

FireTask(id) ==
  /\ Pending(runloop, id)
  /\ runloop[id].kind \in {"later", "schedule"}
  /\ \A j \in DOMAIN runloop : runloop[j].status # "running"
  /\ registeredTimers' =
       [registeredTimers EXCEPT ![runloop[id].obj] = wrapperDelete(@, id)]
  /\ runloop' = [runloop EXCEPT ![id].status = "running",
                                ![id].late = hookRan[runloop[id].obj],
                                ![id].ranWith = runloop[id].args,
                                ![id].ran = runloop[id].bound]
  /\ lastCall' = Idle
  /\ UNCHANGED <<methods, isDestroyed, registeredDisposables, registeredDebounces, hookRan,
                 debounceBurst, throttleBurst>>

\* A debounce timer fires: the wrapper deletes the entry of its name from the
\* owner's Map and calls the method of that name with the timer's arguments.
\* A bug: the wrapped callback calls the method without deleting the entry.
debouncedTaskDeleteMissing(map, name) == map

\* pendingDebounces.delete(name) of the wrapped callback, before the method is called.
debouncedTaskDelete(map, name) == deleteEntry(map, name)

FireDebounce(id) ==
  /\ Pending(runloop, id)
  /\ runloop[id].kind = "debounce"
  /\ \A j \in DOMAIN runloop : runloop[j].status # "running"
  /\ registeredDebounces' =
       [registeredDebounces EXCEPT ![runloop[id].obj] =
           debouncedTaskDelete(@, runloop[id].task)]
  /\ runloop' = [runloop EXCEPT ![id].status = "running",
                                ![id].late = hookRan[runloop[id].obj],
                                ![id].ranWith = runloop[id].args,
                                ![id].ran = methods[runloop[id].obj][runloop[id].task],
                                ![id].want =
                                   debounceBurst[runloop[id].obj][runloop[id].task].last]
  /\ debounceBurst' =
       closeBursts(debounceBurst, {<<runloop[id].obj, runloop[id].task>>})
  /\ lastCall' = Idle
  /\ UNCHANGED <<methods, isDestroyed, registeredDisposables, registeredTimers, hookRan,
                 throttleBurst>>

\* The window of a throttle ends: the run loop drops its timer, nothing is called.
ExpireThrottle(id) ==
  /\ Pending(runloop, id)
  /\ runloop[id].kind = "throttle"
  /\ runloop' = [runloop EXCEPT ![id].status = "done"]
  /\ throttleBurst' = closeBursts(throttleBurst, throttleKeys(runloop, {id}))
  /\ lastCall' = Idle
  /\ UNCHANGED <<methods, isDestroyed, registeredDisposables, registeredTimers,
                 registeredDebounces, hookRan, debounceBurst>>

\* The body of the task that is running returns.
Return(id) ==
  /\ id \in DOMAIN runloop
  /\ runloop[id].status = "running"
  /\ runloop' = [runloop EXCEPT ![id].status = "done"]
  /\ lastCall' = Idle
  /\ UNCHANGED <<methods, isDestroyed, registeredDisposables, registeredTimers,
                 registeredDebounces, hookRan, debounceBurst, throttleBurst>>

\* ------------------------------------------------------------ destruction
\* A bug: the disposable cancels the cancelIds of every owner's Set.
timersDisposableOfAll(st, obj) ==
  [st EXCEPT !.runloop = cancelEach(st.runloop,
                UNION {st.registeredTimers[o] : o \in DOMAIN st.registeredTimers}),
             !.registeredTimers = [st.registeredTimers EXCEPT ![obj] = {}]]

\* getTimersDisposable: cancelTask(obj, cancelId) for each cancelId, then clear().
timersDisposable(st, obj) ==
  [st EXCEPT !.runloop = cancelEach(st.runloop, st.registeredTimers[obj]),
             !.registeredTimers = [st.registeredTimers EXCEPT ![obj] = {}]]

\* getDebouncesDisposable: cancel(p.cancelId) for each pending debounce.
debouncesDisposable(st, obj) ==
  [st EXCEPT !.runloop = cancelEach(st.runloop,
     {st.registeredDebounces[obj][n].cancelId : n \in DOMAIN st.registeredDebounces[obj]})]

RECURSIVE runEach(_, _, _)
runEach(disposables, st, obj) ==
  IF disposables = <<>> THEN st
  ELSE runEach(Tail(disposables),
               IF Head(disposables) = "timers" THEN timersDisposable(st, obj)
               ELSE debouncesDisposable(st, obj),
               obj)

\* utils/disposable runDisposables(obj), which the host runs once when obj is
\* being destroyed: every registered disposable runs, the list is dropped.
RunDisposables(obj) ==
  LET st == runEach(registeredDisposables[obj],
                    [runloop |-> runloop, registeredTimers |-> registeredTimers,
                     registeredDebounces |-> registeredDebounces], obj)
      gone == {i \in DOMAIN runloop : runloop[i].status # st.runloop[i].status}
  IN /\ ~hookRan[obj]
     /\ runloop' = st.runloop
     /\ registeredTimers' = st.registeredTimers
     /\ registeredDebounces' = st.registeredDebounces
     /\ registeredDisposables' = [registeredDisposables EXCEPT ![obj] = <<>>]
     /\ hookRan' = [hookRan EXCEPT ![obj] = TRUE]
     /\ throttleBurst' = closeBursts(throttleBurst, throttleKeys(runloop, gone))
     /\ debounceBurst' = closeBursts(debounceBurst, {<<obj, n>> : n \in Names})
     /\ lastCall' = Idle
     /\ UNCHANGED <<methods, isDestroyed>>

\* The host sets obj.isDestroyed after the object's willDestroy has run.
MarkDestroyed(obj) ==
  /\ hookRan[obj]
  /\ ~isDestroyed[obj]
  /\ isDestroyed' = [isDestroyed EXCEPT ![obj] = TRUE]
  /\ lastCall' = Idle
  /\ UNCHANGED <<methods, registeredDisposables, registeredTimers, registeredDebounces,
                 runloop, hookRan, debounceBurst, throttleBurst>>

\* The program assigns another function to obj[name].
Reassign(obj, name) ==
  /\ methods[obj][name] = "v1"
  /\ methods' = [methods EXCEPT ![obj][name] = "v2"]
  /\ lastCall' = Idle
  /\ UNCHANGED <<isDestroyed, registeredDisposables, registeredTimers,
                 registeredDebounces, runloop, hookRan, debounceBurst, throttleBurst>>

\* ------------------------------------------------------------ specifications
\* One owner; the calls draw well-formed arguments.
Next ==
  \/ \E t \in {Fn} : RunTask("o1", t)
  \/ \E q \in Queues, t \in {Fn}, a \in {"a"} : ScheduleTask("o1", q, t, a)
  \/ \E n \in {"f"}, a \in Args, w \in {"5"} : ThrottleTask("o1", n, a, w)
  \/ \E n \in {"f"}, a \in Args, w \in {"5"}, fresh \in BOOLEAN :
        DebounceTask("o1", n, a, w, fresh)
  \/ \E obj \in {"o1", Legacy}, id \in Returned \cup {0} : CancelTask(obj, id)
  \/ \E n \in {"f"} : CancelDebounce("o1", n)
  \/ \E id \in DOMAIN runloop : FireTask(id)
  \/ \E id \in DOMAIN runloop : FireDebounce(id)
  \/ \E id \in DOMAIN runloop : ExpireThrottle(id)
  \/ \E id \in DOMAIN runloop : Return(id)
  \/ RunDisposables("o1")
  \/ MarkDestroyed("o1")

Spec == Init /\ [][Next]_vars

\* One owner; the calls draw every kind of argument, also the malformed ones.
NextAnyInput ==
  \/ \E t \in {Fn, Missing, NotAString} :
        RunTask("o1", t) /\ Len(runloop') <= MaxIdAnyInput
  \/ \E q \in QueueInputs, t \in {Fn, Missing, NotAString}, a \in {"a"} :
        ScheduleTask("o1", q, t, a) /\ Len(runloop') <= MaxIdAnyInput
  \/ \E n \in {"f", Missing, NotAString}, a \in {"a"}, w \in WaitInputs :
        ThrottleTask("o1", n, a, w) /\ Len(runloop') <= MaxIdAnyInput
  \/ \E n \in {"f", Missing, NotAString}, a \in {"a"}, w \in WaitInputs :
        DebounceTask("o1", n, a, w, TRUE) /\ Len(runloop') <= MaxIdAnyInput
  \/ \E obj \in {"o1", Legacy}, id \in Returned \cup {0} : CancelTask(obj, id)
  \/ \E n \in {"f"} : CancelDebounce("o1", n)
  \/ \E id \in DOMAIN runloop : FireTask(id)
  \/ \E id \in DOMAIN runloop : FireDebounce(id)
  \/ \E id \in DOMAIN runloop : ExpireThrottle(id)
  \/ \E id \in DOMAIN runloop : Return(id)
  \/ RunDisposables("o1")
  \/ MarkDestroyed("o1")

SpecAnyInput == Init /\ [][NextAnyInput]_vars

\* One owner; tasks are given by name and the owner's property is reassigned.
NextNamed ==
  \/ \E t \in {"f"} : RunTask("o1", t)
  \/ \E q \in Queues, t \in {"f"}, a \in {"a"} : ScheduleTask("o1", q, t, a)
  \/ \E n \in {"f"}, a \in {"a"}, w \in {"5"} : ThrottleTask("o1", n, a, w)
  \/ \E n \in {"f"}, a \in {"a"}, w \in {"5"}, fresh \in BOOLEAN :
        DebounceTask("o1", n, a, w, fresh)
  \/ \E n \in {"f"} : Reassign("o1", n)
  \/ \E id \in DOMAIN runloop : FireTask(id)
  \/ \E id \in DOMAIN runloop : FireDebounce(id)
  \/ \E id \in DOMAIN runloop : ExpireThrottle(id)
  \/ \E id \in DOMAIN runloop : Return(id)

SpecNamed == Init /\ [][NextNamed]_vars

\* Two owners and two names; the calls draw well-formed arguments.
NextTwoOwners ==
  \/ \E obj \in Owners : RunTask(obj, Fn) /\ Len(runloop') <= MaxIdTwoOwners
  \/ \E obj \in Owners :
        ThrottleTask(obj, "f", "a", "5") /\ Len(runloop') <= MaxIdTwoOwners
  \/ \E obj \in Owners, n \in Names, fresh \in BOOLEAN :
        DebounceTask(obj, n, "a", "5", fresh) /\ Len(runloop') <= MaxIdTwoOwners
  \/ \E obj \in Owners, n \in Names : CancelDebounce(obj, n)
  \/ \E id \in DOMAIN runloop : FireTask(id)
  \/ \E id \in DOMAIN runloop : FireDebounce(id)
  \/ \E id \in DOMAIN runloop : ExpireThrottle(id)
  \/ \E id \in DOMAIN runloop : Return(id)
  \/ \E obj \in Owners : RunDisposables(obj)

SpecTwoOwners == Init /\ [][NextTwoOwners]_vars

\* ------------------------------------------------------------ properties
TimersOf(obj) == IF obj \in DOMAIN registeredTimers THEN registeredTimers[obj] ELSE {}
DebouncesOf(obj) ==
  IF obj \in DOMAIN registeredDebounces THEN registeredDebounces[obj] ELSE EmptyMap
Errors == {"DestroyedOwner", "InvalidTask", "InvalidQueue", "ReservedQueue",
           "InvalidDelay", "SchedulerError"}
Fired(id) == runloop[id].status \in {"running", "done"}

\* C1: once runDisposables(obj) has run, no task scheduled for obj through
\* runTask, scheduleTask, throttleTask or debounceTask executes.
C1_NothingRunsAfterDisposal ==
  \A id \in DOMAIN runloop : ~runloop[id].late

\* C1, for the tasks scheduled before runDisposables(obj) ran: none of them
\* executes after it; a task that does was scheduled after it.
C1_OnlyTasksScheduledAfterDisposalRunLate ==
  \A id \in DOMAIN runloop : runloop[id].late => runloop[id].post

\* C2: right after runDisposables(obj) the owner's timer Set holds no cancelId
\* and the owner's debounce Map holds no entry.
C2_DisposalEmptiesBoth ==
  [][\A obj \in Owners : RunDisposables(obj) =>
        /\ TimersOf(obj)' = {}
        /\ DOMAIN DebouncesOf(obj)' = {}]_vars

\* C2, the part that holds: right after runDisposables(obj) the timer Set is
\* empty and no timer of the Set or of a debounce entry is pending.
C2_DisposalCancelsAll ==
  [][\A obj \in Owners : RunDisposables(obj) =>
        /\ TimersOf(obj)' = {}
        /\ \A id \in DOMAIN runloop :
              (runloop[id].obj = obj /\ runloop[id].status = "pending")
                 => runloop'[id].status = "cancelled"]_vars

\* C3: a task of runTask or scheduleTask whose cancelId was given to cancelTask
\* (with or without the owner) before it fired never executes.
C3_CancelledTaskNeverRuns ==
  \A id \in DOMAIN runloop :
     (runloop[id].kind \in {"later", "schedule"} /\ runloop[id].asked)
        => runloop[id].status = "cancelled"

\* C3 witness: two tasks cancelled before firing, one by cancelTask(cancelId)
\* (its cancelId stays in the Set), one by cancelTask(obj, cancelId).
C3_Witness ==
  \E i, j \in DOMAIN runloop :
     /\ runloop[i].kind = "later" /\ runloop[j].kind = "schedule"
     /\ runloop[i].asked /\ runloop[j].asked
     /\ runloop[i].status = "cancelled" /\ runloop[j].status = "cancelled"
     /\ i \in TimersOf(runloop[i].obj) /\ j \notin TimersOf(runloop[j].obj)
\* C4: a burst of debounceTask calls on (obj, name) ends in one call of the
\* method, with the arguments of the latest call: a debounced method only ever
\* gets the arguments of the latest call of the open burst, and while a burst is
\* open exactly one timer is due for it, carrying those arguments.
C4_DebounceBurstRunsOnceWithLatest ==
  /\ \A id \in DOMAIN runloop :
        (runloop[id].kind = "debounce" /\ Fired(id))
           => runloop[id].ranWith = runloop[id].want
  /\ \A obj \in Owners, n \in Names :
        IF debounceBurst[obj][n] = NoBurst
        THEN debouncersOf(runloop, obj, n) = {}
        ELSE \E id \in DOMAIN runloop :
               /\ debouncersOf(runloop, obj, n) = {id}
               /\ runloop[id].args = debounceBurst[obj][n].last

\* C4 witness: a burst of two calls, with "a" and then with "b" (the run loop
\* replaced the first timer), has run the method with "b".
C4_Witness ==
  \E i, j \in DOMAIN runloop :
     /\ runloop[i].kind = "debounce" /\ runloop[j].kind = "debounce"
     /\ runloop[i].method = runloop[j].method
     /\ runloop[i].status = "replaced" /\ runloop[i].args = "a"
     /\ Fired(j) /\ runloop[j].ranWith = "b"

\* C5: a burst of throttleTask calls on (obj, name) within the window calls the
\* method once, with the arguments of the first call: every call of a throttled
\* method gets the arguments of the call that opened the window, and an open
\* window has exactly one timer, made by the call that ran the method.
C5_ThrottleBurstRunsOnceWithFirst ==
  /\ \A id \in DOMAIN runloop :
        runloop[id].kind = "throttle" => runloop[id].ranWith = runloop[id].want
  /\ \A obj \in Owners, n \in Names :
        LET open == {i \in DOMAIN runloop :
                       /\ runloop[i].status = "pending" /\ runloop[i].kind = "throttle"
                       /\ runloop[i].obj = obj /\ runloop[i].task = n}
        IN IF throttleBurst[obj][n] = NoBurst THEN open = {}
           ELSE \E id \in DOMAIN runloop :
                  /\ open = {id}
                  /\ runloop[id].ranWith = throttleBurst[obj][n].first

\* C5 witness: a window opened by a call with "a", a later call with "b" in it,
\* and the method has run with "a" only.
C5_Witness ==
  \E id \in DOMAIN runloop :
     /\ runloop[id].kind = "throttle" /\ runloop[id].status = "pending"
     /\ runloop[id].ranWith = "a"
     /\ throttleBurst[runloop[id].obj][runloop[id].task] = [first |-> "a", last |-> "b"]

\* C6: the cancelId of a task of runTask or scheduleTask that has fired is not
\* in the owner's Set, while the task's body runs and after it.
C6_FiredTaskLeftTheSet ==
  \A id \in DOMAIN runloop :
     (runloop[id].kind \in {"later", "schedule"} /\ Fired(id))
        => id \notin TimersOf(runloop[id].obj)

\* C6 witness: a task's body is running, runDisposables(obj) ran from inside it.
C6_Witness ==
  \E id \in DOMAIN runloop :
     /\ runloop[id].kind = "later" /\ runloop[id].status = "running"
     /\ ~runloop[id].late /\ hookRan[runloop[id].obj]

\* C7: runTask, scheduleTask, throttleTask and debounceTask on an owner whose
\* isDestroyed is true end in an error and change nothing.
C7_DestroyedOwnerCallsFail ==
  [][\A obj \in Owners : isDestroyed[obj] =>
        LET failed == lastCall' \in Errors /\ UNCHANGED progVars IN
        /\ \A t \in TaskInputs : RunTask(obj, t) => failed
        /\ \A q \in QueueInputs, t \in TaskInputs, a \in Args :
              ScheduleTask(obj, q, t, a) => failed
        /\ \A n \in NameInputs, a \in Args, w \in WaitInputs :
              ThrottleTask(obj, n, a, w) => failed
        /\ \A n \in NameInputs, a \in Args, w \in WaitInputs, fresh \in BOOLEAN :
              DebounceTask(obj, n, a, w, fresh) => failed]_vars

\* C7 witness: a call on a destroyed owner has failed.
C7_Witness == isDestroyed["o1"] /\ lastCall = "DestroyedOwner"

\* C8: a call of runTask, scheduleTask, throttleTask or debounceTask that ends in
\* an error changes nothing.
C8_FailedCallChangesNothing ==
  [][lastCall' \in Errors => UNCHANGED progVars]_vars

\* C8, for the errors the library raises itself (its assertions and getTask):
\* such a call changes nothing.
C8_RejectedCallChangesNothing ==
  [][lastCall' \in Errors \ {"SchedulerError"} => UNCHANGED progVars]_vars

\* C9: when cancelDebounce(obj, name) returns, the Map has no entry for name and
\* no debounce timer of (obj, name) is pending.
C9_CancelDebounceCancelsLatest ==
  [][\A obj \in Owners, n \in Names : CancelDebounce(obj, n) =>
        /\ n \notin DOMAIN DebouncesOf(obj)'
        /\ debouncersOf(runloop', obj, n) = {}]_vars

\* C9 witness: a burst of two calls (the run loop replaced the first timer) was
\* cancelled by cancelDebounce.
C9_Witness ==
  \E i, j \in DOMAIN runloop :
     /\ runloop[i].kind = "debounce" /\ runloop[j].kind = "debounce"
     /\ runloop[i].status = "replaced"
     /\ runloop[j].asked /\ runloop[j].status = "cancelled"

\* C10: cancelDebounce(obj, name) when the owner has no Map, or a Map without
\* an entry for name, raises no error and changes nothing.
C10_CancelDebounceWithoutEntryIsNoop ==
  [][\A obj \in Owners, n \in Names :
        (n \notin DOMAIN DebouncesOf(obj) /\ CancelDebounce(obj, n))
           => (lastCall' = "cancelDebounce:noop" /\ UNCHANGED progVars)]_vars

\* C10 witness: cancelDebounce was a no-op for an owner that has a timer pending
\* and no Map.
C10_Witness ==
  /\ lastCall = "cancelDebounce:noop"
  /\ "o1" \notin DOMAIN registeredDebounces
  /\ \E id \in DOMAIN runloop : runloop[id].status = "pending"

\* C11: cancelTask(obj, cancelId) for a cancelId that is unknown, has fired or
\* was cancelled raises no error and changes nothing, whatever the owner.
C11_CancelTaskOfNothingChangesNothing ==
  [][\A obj \in Owners, id \in Returned \cup {0} :
        (~Pending(runloop, id) /\ CancelTask(obj, id))
           => (lastCall' = "cancelTask:noop" /\ UNCHANGED progVars)]_vars

\* C11, without the owner's Set: such a call raises no error, changes no timer
\* of the run loop and no debounce Map, and a second call changes nothing at all.
C11_CancelTaskOfNothingKeepsRunLoop ==
  [][\A obj \in Owners, id \in Returned \cup {0} :
        (~Pending(runloop, id) /\ CancelTask(obj, id))
           => /\ lastCall' = "cancelTask:noop"
              /\ UNCHANGED <<runloop, registeredDebounces, isDestroyed>>
              /\ obj \in DOMAIN registeredTimers' /\ id \notin TimersOf(obj)']_vars

\* C12: the one-argument cancelTask(cancelId) cancels the timer in the run loop
\* and changes no owner's Set; a cancelId that is in a Set with its timer
\* cancelled leaves the Set only when runDisposables(obj) runs or
\* cancelTask(obj, cancelId) is called.
C12_LegacyCancelKeepsTheSet ==
  [][/\ \A id \in Returned \cup {0} :
           \/ /\ registeredTimers' = registeredTimers
              /\ Pending(runloop, id) => runloop'[id].status = "cancelled"
           \/ ~CancelTask(Legacy, id)
     /\ \A obj \in Owners, id \in DOMAIN runloop :
           (/\ id \in TimersOf(obj) /\ runloop[id].status = "cancelled"
            /\ id \notin TimersOf(obj)')
              => (RunDisposables(obj) \/ CancelTask(obj, id))]_vars

\* C12 as stated: a cancelId that is in a Set with its timer cancelled leaves
\* the Set only when runDisposables(obj) runs.
C12_LegacyCancelledStaysUntilDisposal ==
  [][\A obj \in Owners, id \in DOMAIN runloop :
        (/\ id \in TimersOf(obj) /\ runloop[id].status = "cancelled"
         /\ id \notin TimersOf(obj)')
           => RunDisposables(obj)]_vars

\* C12 witness: a task of scheduleTask was cancelled by cancelTask(cancelId) and
\* its cancelId is still in the owner's Set, the owner not disposed.
C12_Witness ==
  \E id \in DOMAIN runloop :
     /\ runloop[id].kind = "schedule" /\ runloop[id].asked
     /\ runloop[id].status = "cancelled"
     /\ id \in TimersOf(runloop[id].obj) /\ ~hookRan[runloop[id].obj]

C14_NamedTaskIsLateBound ==
  [][\A id \in DOMAIN runloop :
        ((FireTask(id) \/ FireDebounce(id)) /\ runloop[id].task \in Names)
           => runloop'[id].ran = methods[runloop[id].obj][runloop[id].task]]_vars

\* C14, for debounceTask alone: the function called is the one obj has under
\* the name when the timer fires.
C14_DebouncedTaskIsLateBound ==
  [][\A id \in DOMAIN runloop :
        FireDebounce(id)
           => runloop'[id].ran = methods[runloop[id].obj][runloop[id].task]]_vars

\* C15: throttleTask and debounceTask called on a live owner, with the name of
\* a method and a negative integer as the wait, fail with an invalid-delay error
\* and schedule nothing.
C15_NegativeWaitIsRejected ==
  [][\A obj \in Owners, n \in Names, a \in Args, fresh \in BOOLEAN :
        (/\ ~isDestroyed[obj]
         /\ ThrottleTask(obj, n, a, "-5") \/ DebounceTask(obj, n, a, "-5", fresh))
           => (lastCall' = "InvalidDelay" /\ UNCHANGED progVars)]_vars

\* C15, for a wait that is no integer: the call fails with an invalid-delay
\* error and schedules nothing.
C15_NonIntegerWaitIsRejected ==
  [][\A obj \in Owners, n \in Names, a \in Args, fresh \in BOOLEAN :
        (/\ ~isDestroyed[obj]
         /\ ThrottleTask(obj, n, a, "bad") \/ DebounceTask(obj, n, a, "bad", fresh))
           => (lastCall' = "InvalidDelay" /\ UNCHANGED progVars)]_vars

\* C16: a task of runTask has not been called when runTask returns, and it is
\* called at most once: its timer is made due with nothing called, its body
\* starts only by the firing of the due timer, and a timer that fired, was
\* cancelled or ended is never due again.
C16_RunTaskRunsLaterAndOnce ==
  [][\A id \in DOMAIN runloop' :
        runloop'[id].kind = "later" =>
          IF id \notin DOMAIN runloop
          THEN runloop'[id].status = "pending" /\ runloop'[id].ran = NoFn
          ELSE /\ (runloop'[id].status = "running" /\ runloop[id].status # "running")
                    => (runloop[id].status = "pending" /\ FireTask(id))
               /\ runloop'[id].status = "pending" => runloop[id].status = "pending"
               /\ runloop[id].ran # NoFn => runloop'[id].ran = runloop[id].ran]_vars

\* C16 witness: a task of runTask has run and ended, the owner's disposables ran
\* and cancelTask was called with its cancelId afterwards.
C16_Witness ==
  /\ lastCall = "cancelTask:noop"
  /\ \E id \in DOMAIN runloop :
        /\ runloop[id].kind = "later" /\ runloop[id].status = "done"
        /\ runloop[id].ran = Fn /\ hookRan[runloop[id].obj]

\* C17: before runDisposables(obj) has run, every entry of the owner's debounce
\* Map stores the cancelId of the one debounce timer that is due for (obj,
\* name), made for the entry's wrapped callback; a debounceTask call on a name
\* that has an entry keeps the entry's wrapped callback.
C17_EntryDenotesTheOneDebounce ==
  [][\A obj \in Owners : ~hookRan'[obj] =>
        \A n \in DOMAIN DebouncesOf(obj)' :
           LET entry == DebouncesOf(obj)'[n] IN
           /\ debouncersOf(runloop', obj, n) = {entry.cancelId}
           /\ runloop'[entry.cancelId].method = entry.debouncedTask
           /\ n \in DOMAIN DebouncesOf(obj)
                 => \/ entry = DebouncesOf(obj)[n]
                    \/ /\ \E a \in Args, fresh \in BOOLEAN :
                             DebounceTask(obj, n, a, "5", fresh)
                       /\ entry.debouncedTask = DebouncesOf(obj)[n].debouncedTask]_vars

\* C17 witness: a second debounceTask call on a name got a new identifier from
\* the run loop; the entry has it, with the wrapped callback of the first call.
C17_Witness ==
  /\ ~hookRan["o1"]
  /\ "f" \in DOMAIN DebouncesOf("o1")
  /\ DebouncesOf("o1")["f"] = [debouncedTask |-> 1, cancelId |-> 2]
  /\ runloop[1].status = "replaced" /\ runloop[2].status = "pending"

\* C18: when a debounce timer fires, the entry of its name is gone before the
\* method is called; while the method runs the Map has no entry with the
\* wrapped callback that is running, and a debounceTask call on the name made
\* meanwhile makes a new entry, with a new wrapped callback and a timer of its
\* own (due as long as the owner's disposables have not run), and leaves the
\* running one alone.
C18_EntryGoneBeforeTheMethodRuns ==
  [][\A id \in DOMAIN runloop :
        LET obj == runloop[id].obj
            n == runloop[id].task
        IN runloop[id].kind = "debounce" =>
             /\ FireDebounce(id) => n \notin DOMAIN DebouncesOf(obj)'
             /\ (runloop'[id].status = "running" /\ n \in DOMAIN DebouncesOf(obj)')
                   => LET entry == DebouncesOf(obj)'[n] IN
                      /\ entry.debouncedTask # runloop[id].method
                      /\ entry.cancelId # id
                      /\ runloop'[entry.cancelId].method = entry.debouncedTask
                      /\ ~hookRan'[obj] => Pending(runloop', entry.cancelId)]_vars

\* C18 witness: while the method of a debounce timer runs, debounceTask was
\* called on the same name and made a new entry.
C18_Witness ==
  \E id \in DOMAIN runloop :
     /\ runloop[id].kind = "debounce" /\ runloop[id].status = "running"
     /\ runloop[id].task \in DOMAIN DebouncesOf(runloop[id].obj)
     /\ DebouncesOf(runloop[id].obj)[runloop[id].task].cancelId # id

\* C19: every cancelId in an owner's Set is that of a timer that is still due,
\* the cancelIds that the one-argument cancelTask cancelled aside (they are in
\* the Set with their timer cancelled on a caller's demand).
C19_SetHoldsOnlyDueTimers ==
  \A obj \in Owners : \A id \in TimersOf(obj) :
     /\ id \in DOMAIN runloop
     /\ \/ runloop[id].status = "pending"
        \/ runloop[id].status = "cancelled" /\ runloop[id].asked

\* C19, for the cancelIds of runTask and scheduleTask alone.
C19_SetHoldsOnlyDueTasks ==
  \A obj \in Owners : \A id \in TimersOf(obj) :
     /\ id \in DOMAIN runloop
     /\ runloop[id].kind \in {"later", "schedule"} =>
           \/ runloop[id].status = "pending"
           \/ runloop[id].status = "cancelled" /\ runloop[id].asked

\* C20: runTask, scheduleTask, throttleTask and debounceTask on an owner whose
\* disposables have run end in an error and change nothing, also while the
\* owner's isDestroyed is still false.
C20_CallsAfterDisposalFail ==
  [][\A obj \in Owners : hookRan[obj] =>
        LET failed == lastCall' \in Errors /\ UNCHANGED progVars IN
        /\ \A t \in TaskInputs : RunTask(obj, t) => failed
        /\ \A q \in QueueInputs, t \in TaskInputs, a \in Args :
              ScheduleTask(obj, q, t, a) => failed
        /\ \A n \in NameInputs, a \in Args, w \in WaitInputs :
              ThrottleTask(obj, n, a, w) => failed
        /\ \A n \in NameInputs, a \in Args, w \in WaitInputs, fresh \in BOOLEAN :
              DebounceTask(obj, n, a, w, fresh) => failed]_vars

\* C20, for the tasks left behind: a timer that is due for an owner whose
\* disposables have run was made by a call after they ran.
C20_OnlyLateCallsLeaveTasksBehind ==
  \A id \in DOMAIN runloop :
     (hookRan[runloop[id].obj] /\ runloop[id].status = "pending") => runloop[id].post

\* C21: before runDisposables(obj) has run, the cancelId of every timer of
\* runTask or scheduleTask that is due is in the owner's Set, and the cancelId
\* of every debounce timer that is due is the one stored in the entry of its
\* name in the owner's Map.
C21_DueTimersAreTracked ==
  \A id \in DOMAIN runloop :
     LET obj == runloop[id].obj
         n == runloop[id].task
     IN (runloop[id].status = "pending" /\ ~hookRan[obj]) =>
          /\ runloop[id].kind \in {"later", "schedule"} => id \in TimersOf(obj)
          /\ runloop[id].kind = "debounce" =>
                /\ n \in DOMAIN DebouncesOf(obj)
                /\ DebouncesOf(obj)[n].cancelId = id

\* C21 witness: a task of scheduleTask and a debounce are due, the owner's
\* disposables have not run, and cancelTask was called for nothing.
C21_Witness ==
  /\ ~hookRan["o1"]
  /\ lastCall = "cancelTask:noop"
  /\ \E i, j \in DOMAIN runloop :
        /\ runloop[i].kind = "schedule" /\ runloop[i].status = "pending"
        /\ runloop[j].kind = "debounce" /\ runloop[j].status = "pending"
        /\ runloop[j].args = "b"

\* C22: runDisposables(A) changes neither the Set, the Map, the disposables nor
\* any timer of another owner B; debounceTask and cancelDebounce on (A, name)
\* change no entry of another name of A and no entry of another owner.
C22_OtherOwnersAndNamesUntouched ==
  [][\A A \in Owners :
        LET othersUntouched ==
              \A B \in Owners \ {A} :
                 /\ TimersOf(B)' = TimersOf(B)
                 /\ DebouncesOf(B)' = DebouncesOf(B)
                 /\ registeredDisposables'[B] = registeredDisposables[B]
                 /\ \A id \in DOMAIN runloop :
                       runloop[id].obj = B => runloop'[id] = runloop[id]
            otherEntriesUntouched(n) ==
              \A B \in Owners, m \in Names :
                 <<B, m>> # <<A, n>> =>
                   /\ m \in DOMAIN DebouncesOf(B)' <=> m \in DOMAIN DebouncesOf(B)
                   /\ m \in DOMAIN DebouncesOf(B)
                         => DebouncesOf(B)'[m] = DebouncesOf(B)[m]
        IN /\ othersUntouched \/ ~RunDisposables(A)
           /\ \A n \in Names :
                \/ otherEntriesUntouched(n)
                \/ /\ ~CancelDebounce(A, n)
                   /\ \A a \in Args, fresh \in BOOLEAN :
                         ~DebounceTask(A, n, a, "5", fresh)]_vars

\* C22 witness: the disposables of o1 ran and cancelled its task; the task of
\* o2 is still due and its cancelId in the Set of o2.
C22_Witness ==
  /\ hookRan["o1"] /\ ~hookRan["o2"]
  /\ \E i, j \in DOMAIN runloop :
        /\ runloop[i].obj = "o1" /\ runloop[i].status = "cancelled"
        /\ runloop[j].obj = "o2" /\ runloop[j].status = "pending"
        /\ j \in TimersOf("o2")
====
